---- MODULE Spec2Model ----
(***************************************************************************)
(* Model of the flowchart text parser (src/src/parse.rs).                  *)
(*                                                                         *)
(* A text is a sequence of one-character strings.  parse_graph walks the   *)
(* lines of the text, classifies each with parse_line and folds the         *)
(* classified lines into a label list (nodes), an edge list (edges) and an *)
(* identifier table (node_map).                                            *)
(***************************************************************************)
EXTENDS Integers, Sequences, FiniteSets, TLC

(***************************************************************************)
(* Bounds and input alphabet                                               *)
(***************************************************************************)
\* Largest number of lines in an input text.
MaxLines == 3

LF == "\n"
CR == "\r"
TAB == "\t"

\* The pieces an input text is assembled from; each is followed by a line feed.
Pieces ==
    { <<" ", TAB>>,                                     \* whitespace only
      <<" ", "%", "%", "a", "[", "x", "]", CR>>,        \* comment holding a node, CR LF ending
      <<"%", "%", "a", CR, "b">>,                       \* comment holding a bare CR
      <<"a", "[", "x", "]">>,
      <<"a", "[", "y", "]">>,
      <<"A", "[", "S", "t", "a", "r", "t", "]">>,
      <<"B", "[", "E", "n", "d", "]">>,
      <<"X", "[", "a", "]">>,
      <<"A", " ", "-", "-", ">", " ", "B">>,
      <<"X", " ", "-", "-", ">", " ", "|", "g", "o", "|", " ", "Y">>,
      <<"X", " ", "-", "-", ">", " ", "Y">>,
      <<" ", "a", "<", "-", "-", ">", "|", "d", "|", "X", "?">>,
      <<"Y", "<", "-", "-", ">", "Y">>,
      <<"f", "o", "o", " ", "b", "a", "r">>,
      <<" ", " ", " ", "f", "o", "o", " ", "b", "a", "r">> }

(***************************************************************************)
(* Sequence helpers                                                        *)
(***************************************************************************)
Drop(s, n) == SubSeq(s, n + 1, Len(s))
Take(s, n) == SubSeq(s, 1, n)

\* s starts with t
StartsWith(s, t) == Len(t) <= Len(s) /\ Take(s, Len(t)) = t

\* positions (0-based offsets) at which t occurs in s
Occurrences(s, t) == { i \in 0..(Len(s) - Len(t)) : SubSeq(s, i + 1, i + Len(t)) = t }

Min(S) == CHOOSE x \in S : \A y \in S : x <= y

(***************************************************************************)
(* nom primitives used by the parser (complete, &str input).  Every parser *)
(* returns [ok, rest, val]; on failure rest is the input it was given.     *)
(***************************************************************************)
Fail(input) == [ok |-> FALSE, rest |-> input, val |-> << >>]
Done(rest, val) == [ok |-> TRUE, rest |-> rest, val |-> val]

IsSpace(c) == c \in {" ", TAB}

IsAlphanumeric(c) ==
    c \in { "a", "b", "c", "d", "e", "f", "g", "h", "i", "j", "k", "l", "m",
            "n", "o", "p", "q", "r", "s", "t", "u", "v", "w", "x", "y", "z",
            "A", "B", "C", "D", "E", "F", "G", "H", "I", "J", "K", "L", "M",
            "N", "O", "P", "Q", "R", "S", "T", "U", "V", "W", "X", "Y", "Z",
            "0", "1", "2", "3", "4", "5", "6", "7", "8", "9" }

\* length of the longest prefix of spaces and tabs
SpaceLen(s) ==
    IF \A i \in 1..Len(s) : IsSpace(s[i]) THEN Len(s)
    ELSE Min({ i \in 1..Len(s) : ~IsSpace(s[i]) }) - 1

\* length of the longest alphanumeric prefix
AlnumLen(s) ==
    IF \A i \in 1..Len(s) : IsAlphanumeric(s[i]) THEN Len(s)
    ELSE Min({ i \in 1..Len(s) : ~IsAlphanumeric(s[i]) }) - 1

\* space0: zero or more spaces and tabs, never fails
space0(input) == Done(Drop(input, SpaceLen(input)), Take(input, SpaceLen(input)))

\* alphanumeric1: one or more alphanumeric characters
alphanumeric1(input) ==
    IF AlnumLen(input) = 0 THEN Fail(input)
    ELSE Done(Drop(input, AlnumLen(input)), Take(input, AlnumLen(input)))

\* tag(t): the input starts with t
tag(t, input) ==
    IF StartsWith(input, t) THEN Done(Drop(input, Len(t)), t) ELSE Fail(input)

\* take_until(t): everything before the first occurrence of t, which must exist
take_until(t, input) ==
    IF Occurrences(input, t) = {} THEN Fail(input)
    ELSE Done(Drop(input, Min(Occurrences(input, t))), Take(input, Min(Occurrences(input, t))))

\* delimited(tag(open), take_until(close), tag(close))
delimited(open, close, input) ==
    LET o == tag(open, input)
        b == take_until(close, o.rest)
        c == tag(close, b.rest)
    IN  IF ~o.ok THEN Fail(input)
        ELSE IF ~b.ok THEN Fail(input)
        ELSE IF ~c.ok THEN Fail(input)
        ELSE Done(c.rest, b.val)

\* not_line_ending: everything before the first CR or LF; a CR that does not
\* start a CR LF pair is an error (nom reports ErrorKind::Tag for "a\rb").
not_line_ending(input) ==
    LET ends == { i \in 1..Len(input) : input[i] \in {CR, LF} }
        at == Min(ends)
    IN  IF ends = {} THEN Done(<< >>, input)
        ELSE IF input[at] = CR /\ ~StartsWith(Drop(input, at - 1), <<CR, LF>>)
             THEN Fail(input)
        ELSE Done(Drop(input, at - 1), Take(input, at - 1))

(***************************************************************************)
(* Statement parsers                                                       *)
(***************************************************************************)
\* parse_id: an identifier is a run of alphanumeric characters
parse_id(input) == alphanumeric1(input)

\* parse_node: id[node text]; val is a ParsedNode
parse_node(input) ==
    LET i == parse_id(input)
        d == delimited(<<"[">>, <<"]">>, i.rest)
    IN  IF ~i.ok THEN Fail(input)
        ELSE IF ~d.ok THEN Fail(input)
        ELSE Done(d.rest, [id |-> i.val, desc |-> d.val])

\* parse_edge_desc: |edge|
parse_edge_desc(input) == delimited(<<"|">>, <<"|">>, input)

\* let directed = dir == "-->"
is_directed(dir) == dir = <<"-", "-", ">">>

\* alt((tag("-->"), tag("<-->"))): the first alternative that matches
parse_arrow(input) ==
    IF tag(<<"-", "-", ">">>, input).ok THEN tag(<<"-", "-", ">">>, input)
    ELSE tag(<<"<", "-", "-", ">">>, input)

\* parse_edge: id1 --> |desc| id2 or id1 <--> |desc| id2; val is a ParsedEdge
parse_edge(input) ==
    LET s  == parse_id(input)
        w1 == space0(s.rest)
        a  == parse_arrow(w1.rest)
        w2 == space0(a.rest)
        o  == parse_edge_desc(w2.rest)
        \* opt(parse_edge_desc): a failure consumes nothing and yields None
        od == IF o.ok THEN o ELSE Done(w2.rest, << >>)
        w3 == space0(od.rest)
        t  == parse_id(w3.rest)
    IN  IF ~s.ok THEN Fail(input)
        ELSE IF ~a.ok THEN Fail(input)
        ELSE IF ~t.ok THEN Fail(input)
        ELSE Done(t.rest, [src |-> s.val, dest |-> t.val,
                           directed |-> is_directed(a.val),
                           desc |-> od.val])

\* parse_comment: %% followed by the rest of the line
parse_comment(input) ==
    LET m == tag(<<"%", "%">>, input)
        n == not_line_ending(m.rest)
    IN  IF ~m.ok THEN Fail(input)
        ELSE IF ~n.ok THEN Fail(input)
        ELSE Done(n.rest, n.rest)

\* parse_line: classify one line; input is the text the classifier returns
\* with the classification (for Error, the line after its leading whitespace)
parse_line(line) ==
    LET w == space0(line)
        c == parse_comment(w.rest)
        n == parse_node(w.rest)
        e == parse_edge(w.rest)
    IN  IF w.rest = << >> THEN [kind |-> "Blank", input |-> w.rest]
        ELSE IF c.ok THEN [kind |-> "Comment", input |-> c.rest]
        ELSE IF n.ok THEN [kind |-> "Node", input |-> n.rest, node |-> n.val]
        ELSE IF e.ok THEN [kind |-> "Edge", input |-> e.rest, edge |-> e.val]
        ELSE [kind |-> "Error", input |-> w.rest]

(***************************************************************************)
(* str::lines: lines end at LF; a CR right before that LF is dropped too   *)
(***************************************************************************)
\* number of characters of s up to and including its first LF (all of s if none)
LineSpan(s) ==
    IF \E i \in 1..Len(s) : s[i] = LF THEN Min({ i \in 1..Len(s) : s[i] = LF })
    ELSE Len(s)

StripSuffix(s, c) == IF Len(s) > 0 /\ s[Len(s)] = c THEN Take(s, Len(s) - 1) ELSE s

\* the next line of a non-empty remaining text
NextLine(s) ==
    LET raw == Take(s, LineSpan(s))
    IN  IF raw[Len(raw)] = LF THEN StripSuffix(StripSuffix(raw, LF), CR) ELSE raw

AfterLine(s) == Drop(s, LineSpan(s))

RECURSIVE AllLines(_)
AllLines(s) == IF s = << >> THEN << >> ELSE <<NextLine(s)>> \o AllLines(AfterLine(s))

(***************************************************************************)
(* Input texts                                                             *)
(***************************************************************************)
RECURSIVE JoinLines(_)
JoinLines(ps) == IF ps = << >> THEN << >> ELSE Head(ps) \o <<LF>> \o JoinLines(Tail(ps))

Texts == UNION { { JoinLines(ps) : ps \in [1..n -> Pieces] } : n \in 0..MaxLines }

(***************************************************************************)
(* parse_graph: state of one call                                          *)
(***************************************************************************)
VARIABLES
    text,       \* the input text handed to parse_graph
    rest,       \* what the lines iterator has not yet yielded
    nodes,      \* Vec of node labels
    edges,      \* Vec of ParsedEdge
    node_map,   \* identifier -> index
    pc,         \* "running", "ok" (returned Ok), "err" (returned Err), "panic"
    result,     \* the value returned by the call
    prev        \* history: the last line taken and the builder state before it

vars == <<text, rest, nodes, edges, node_map, pc, result, prev>>

EmptyMap == [x \in {} |-> 0]

Insert(m, k, v) == [x \in DOMAIN m \cup {k} |-> IF x = k THEN v ELSE m[x]]

Snapshot(line) ==
    [taken |-> TRUE, line |-> line, nodes |-> nodes, edges |-> edges, node_map |-> node_map]

\* "Failed to parse line '{}'"
ErrPrefix ==
    << "F", "a", "i", "l", "e", "d", " ", "t", "o", " ", "p", "a", "r", "s", "e", " ",
       "l", "i", "n", "e", " ", "'" >>

ErrMessage(input) == ErrPrefix \o input \o <<"'">>

Init ==
    /\ text \in Texts
    /\ rest = text
    /\ nodes = << >>
    /\ edges = << >>
    /\ node_map = EmptyMap
    /\ pc = "running"
    /\ result = [tag |-> "None"]
    /\ prev = [taken |-> FALSE]

\* nodes[id] = ... panics when id is not a position of nodes
NodePanics(m, ns, node) == node.id \in DOMAIN m /\ m[node.id] >= Len(ns)

\* the node arm with an insert that runs on every declaration
NodeMapAlwaysInsert(m, ns, node) == Insert(m, node.id, Len(ns))

\* the identifier table after a Node line
NodeMap(m, ns, node) ==
    IF node.id \in DOMAIN m THEN m ELSE Insert(m, node.id, Len(ns))

\* the label list after a Node line that does not panic
NodeLabels(m, ns, node) ==
    IF node.id \in DOMAIN m
    THEN Append([ns EXCEPT ![m[node.id] + 1] = node.id], node.desc)
    ELSE Append(ns, node.desc)

\* the edge arm with inserts that run for known identifiers too
EdgeMapAlwaysInsert(m, ns, edge) == Insert(Insert(m, edge.src, Len(ns)), edge.dest, Len(ns))

\* the identifier table after an Edge line
EdgeMap(m, ns, edge) ==
    LET m1 == IF edge.src \notin DOMAIN m THEN Insert(m, edge.src, Len(ns)) ELSE m
    IN  IF edge.dest \notin DOMAIN m1 THEN Insert(m1, edge.dest, Len(ns)) ELSE m1

\* edges.push(edge) turned into an insertion at the front
EdgePushFront(es, edge) == <<edge>> \o es

\* edges.push(edge)
EdgePush(es, edge) == Append(es, edge)

\* ParsedLine::Node arm
NodeLine ==
    /\ pc = "running"
    /\ rest # << >>
    /\ LET line == NextLine(rest)
           r == parse_line(line)
       IN  /\ r.kind = "Node"
           /\ rest' = AfterLine(rest)
           /\ prev' = Snapshot(line)
           /\ IF NodePanics(node_map, nodes, r.node)
              THEN /\ pc' = "panic"
                   /\ UNCHANGED <<nodes, node_map>>
              ELSE /\ nodes' = NodeLabels(node_map, nodes, r.node)
                   /\ node_map' = NodeMap(node_map, nodes, r.node)
                   /\ pc' = pc
    /\ UNCHANGED <<text, edges, result>>

\* ParsedLine::Edge arm
EdgeLine ==
    /\ pc = "running"
    /\ rest # << >>
    /\ LET line == NextLine(rest)
           r == parse_line(line)
       IN  /\ r.kind = "Edge"
           /\ rest' = AfterLine(rest)
           /\ prev' = Snapshot(line)
           /\ node_map' = EdgeMap(node_map, nodes, r.edge)
           /\ edges' = EdgePush(edges, r.edge)
    /\ UNCHANGED <<text, nodes, pc, result>>

\* ParsedLine::Blank | ParsedLine::Comment(_) arm
SkipLine ==
    /\ pc = "running"
    /\ rest # << >>
    /\ LET line == NextLine(rest)
           r == parse_line(line)
       IN  /\ r.kind \in {"Blank", "Comment"}
           /\ rest' = AfterLine(rest)
           /\ prev' = Snapshot(line)
    /\ UNCHANGED <<text, nodes, edges, node_map, pc, result>>

\* ParsedLine::Error arm: return Err(format!("Failed to parse line '{}'", input))
ErrorLine ==
    /\ pc = "running"
    /\ rest # << >>
    /\ LET line == NextLine(rest)
           r == parse_line(line)
       IN  /\ r.kind = "Error"
           /\ rest' = AfterLine(rest)
           /\ prev' = Snapshot(line)
           /\ result' = [tag |-> "Err", msg |-> ErrMessage(r.input)]
    /\ pc' = "err"
    /\ UNCHANGED <<text, nodes, edges, node_map>>

\* the iterator is exhausted: Ok(Graph { nodes, edges })
ReturnOk ==
    /\ pc = "running"
    /\ rest = << >>
    /\ pc' = "ok"
    /\ result' = [tag |-> "Ok", nodes |-> nodes, edges |-> edges]
    /\ UNCHANGED <<text, rest, nodes, edges, node_map, prev>>

Next == NodeLine \/ EdgeLine \/ SkipLine \/ ErrorLine \/ ReturnOk

Spec == Init /\ [][Next]_vars

(***************************************************************************)
(* Vocabulary of the properties                                            *)
(***************************************************************************)
Str_a == <<"a">>
Str_A == <<"A">>
Str_B == <<"B">>

AllSpace(s) == \A i \in 1..Len(s) : IsSpace(s[i])
AllAlnum(s) == \A i \in 1..Len(s) : IsAlphanumeric(s[i])
Contains(s, t) == Occurrences(s, t) # {}

\* the lines of the text, and those already taken from the iterator
TextLines == AllLines(text)
TakenCount == Len(TextLines) - Len(AllLines(rest))

\* classification of the line taken last
LastKind == IF prev.taken THEN parse_line(prev.line).kind ELSE "None"
LastNode == parse_line(prev.line).node
LastEdge == parse_line(prev.line).edge

IsEdgeLine(l) == parse_line(l).kind = "Edge"
IsErrorLine(l) == parse_line(l).kind = "Error"

\* the line is blank or a comment by its shape: nothing, or %%, after leading whitespace
LooksBlankOrComment(l) ==
    LET body == Drop(l, SpaceLen(l))
    IN  body = << >> \/ StartsWith(body, <<"%", "%">>)

\* the line reads  ws src ws arrow ws [|desc|] ws dest ...  for the record e
EdgeFrom(l, e) ==
    LET arrow == IF e.directed THEN <<"-", "-", ">">> ELSE <<"<", "-", "-", ">">>
        n == Len(l)
    IN  /\ e.src # << >> /\ AllAlnum(e.src)
        /\ e.dest # << >> /\ AllAlnum(e.dest)
        /\ \E n0 \in 0..n :
            /\ AllSpace(Take(l, n0))
            /\ StartsWith(Drop(l, n0), e.src)
            /\ \E n1 \in 0..n :
                LET p2 == n0 + Len(e.src) IN
                /\ AllSpace(SubSeq(l, p2 + 1, p2 + n1))
                /\ StartsWith(Drop(l, p2 + n1), arrow)
                /\ \E n2 \in 0..n : \E piped \in BOOLEAN :
                    LET p4 == p2 + n1 + Len(arrow)
                        lbl == IF piped THEN <<"|">> \o e.desc \o <<"|">> ELSE << >>
                    IN
                    /\ AllSpace(SubSeq(l, p4 + 1, p4 + n2))
                    /\ StartsWith(Drop(l, p4 + n2), lbl)
                    /\ piped => ~Contains(e.desc, <<"|">>)
                    /\ ~piped => e.desc = << >>
                    /\ \E n3 \in 0..n :
                        LET p6 == p4 + n2 + Len(lbl) IN
                        /\ AllSpace(SubSeq(l, p6 + 1, p6 + n3))
                        /\ StartsWith(Drop(l, p6 + n3), e.dest)
                        /\ LET p8 == p6 + n3 + Len(e.dest)
                           IN  p8 < n => ~IsAlphanumeric(l[p8 + 1])

ExampleRedeclare == JoinLines(<< <<"a", "[", "x", "]">>, <<"a", "[", "y", "]">> >>)
ExampleKnownEdge ==
    JoinLines(<< <<"A", "[", "S", "t", "a", "r", "t", "]">>,
                 <<"B", "[", "E", "n", "d", "]">>,
                 <<"A", " ", "-", "-", ">", " ", "B">> >>)
ExampleImplicit ==
    JoinLines(<< <<"X", " ", "-", "-", ">", " ", "|", "g", "o", "|", " ", "Y">> >>)

(***************************************************************************)
(* Properties                                                              *)
(***************************************************************************)
\* C1: a node line for an identifier already in the table at index i keeps the
\* length of the label list, sets the label at i to the new description and
\* changes no other label; a[x] then a[y] yields the single label y.
C1_RedeclareOverwrites ==
    /\ (LastKind = "Node" /\ LastNode.id \in DOMAIN prev.node_map) =>
          LET i == prev.node_map[LastNode.id] IN
          /\ pc = "running"
          /\ Len(nodes) = Len(prev.nodes)
          /\ i < Len(nodes)
          /\ nodes[i + 1] = LastNode.desc
          /\ \A j \in 1..Len(nodes) : j # i + 1 => nodes[j] = prev.nodes[j]
    /\ (text = ExampleRedeclare /\ pc = "ok") =>
          /\ result.nodes = << <<"y">> >>
          /\ node_map[Str_a] = 0

\* C2: an edge line gives each endpoint that is not yet in the table the index
\* equal to the current length of the label list and appends an empty label
\* for it, source before destination; two distinct unknown endpoints get
\* consecutive indices and two empty labels.
C2_EdgeCreatesNodes ==
    /\ LastKind = "Edge" =>
          LET new_src == LastEdge.src \notin DOMAIN prev.node_map
              new_dest == LastEdge.dest \notin DOMAIN prev.node_map /\ LastEdge.dest # LastEdge.src
              base == Len(prev.nodes)
              added == (IF new_src THEN 1 ELSE 0) + (IF new_dest THEN 1 ELSE 0)
          IN
          /\ Len(nodes) = base + added
          /\ SubSeq(nodes, 1, base) = prev.nodes
          /\ \A j \in (base + 1)..Len(nodes) : nodes[j] = << >>
          /\ new_src => node_map[LastEdge.src] = base
          /\ new_dest => node_map[LastEdge.dest] = base + (IF new_src THEN 1 ELSE 0)
    /\ (text = ExampleImplicit /\ pc = "ok") => result.nodes = << << >>, << >> >>

\* C3: parse_graph never terminates abnormally; every call ends by returning
\* Ok or Err.
C3_NoCrash == pc # "panic"

\* index (1-based) of the first line of the text that classifies as Error, 0 if none
FirstError ==
    IF \E k \in 1..Len(TextLines) : IsErrorLine(TextLines[k])
    THEN Min({ k \in 1..Len(TextLines) : IsErrorLine(TextLines[k]) })
    ELSE 0

\* C4: when line k is the first line that classifies as Error, the call ends
\* with Err for line k, returns no graph, and has examined no line after k.
C4_FailFast ==
    (pc # "running" /\ FirstError > 0) =>
        /\ pc = "err"
        /\ result.tag = "Err"
        /\ prev.line = TextLines[FirstError]
        /\ TakenCount = FirstError

\* C5: a line that is blank or starts with %% after leading whitespace never
\* yields an error and leaves labels, edges and identifier table unchanged.
C5_BlankCommentNoOp ==
    (prev.taken /\ LooksBlankOrComment(prev.line)) =>
        /\ pc = "running"
        /\ nodes = prev.nodes
        /\ edges = prev.edges
        /\ node_map = prev.node_map

C7_EdgesInSourceOrder ==
    pc = "ok" =>
        LET el == SelectSeq(TextLines, IsEdgeLine) IN
        /\ Len(result.edges) = Len(el)
        /\ \A i \in 1..Len(el) : EdgeFrom(el[i], result.edges[i])

C7_Witness ==
    /\ pc = "ok"
    /\ Len(result.edges) >= 2
    /\ \E i, j \in 1..Len(result.edges) :
        /\ i < j
        /\ result.edges[i].directed /\ result.edges[i].desc = <<"g", "o">>
        /\ ~result.edges[j].directed /\ result.edges[j].desc = << >>

\* C8: an edge line whose source and destination are both in the table leaves
\* the table and the label list unchanged and appends exactly one edge;
\* A[Start], B[End], A --> B yields labels Start, End and one directed edge
\* from A (index 0) to B (index 1) with empty label.
C8_KnownEdgeOnlyAppendsEdge ==
    /\ (LastKind = "Edge" /\ LastEdge.src \in DOMAIN prev.node_map
                          /\ LastEdge.dest \in DOMAIN prev.node_map) =>
          /\ node_map = prev.node_map
          /\ nodes = prev.nodes
          /\ Len(edges) = Len(prev.edges) + 1
          /\ SubSeq(edges, 1, Len(prev.edges)) = prev.edges
          /\ edges[Len(edges)].src = LastEdge.src
          /\ edges[Len(edges)].dest = LastEdge.dest
    /\ (text = ExampleKnownEdge /\ pc = "ok") =>
          /\ result.nodes = << <<"S", "t", "a", "r", "t">>, <<"E", "n", "d">> >>
          /\ result.edges = << [src |-> Str_A, dest |-> Str_B, directed |-> TRUE, desc |-> << >>] >>
          /\ node_map[Str_A] = 0
          /\ node_map[Str_B] = 1

C8_Witness ==
    /\ text = ExampleKnownEdge
    /\ pc = "ok"
    /\ LastKind = "Edge"
    /\ LastEdge.src \in DOMAIN prev.node_map
    /\ LastEdge.dest \in DOMAIN prev.node_map
    /\ Len(result.edges) = 1

\* identifiers appearing in the node and edge lines taken so far
RECURSIVE IdsOf(_)
IdsOf(ls) ==
    IF ls = << >> THEN {}
    ELSE LET r == parse_line(Head(ls))
         IN  (CASE r.kind = "Node" -> {r.node.id}
                [] r.kind = "Edge" -> {r.edge.src, r.edge.dest}
                [] OTHER -> {}) \cup IdsOf(Tail(ls))

\* C9: after any prefix of lines without Error the identifier table maps the
\* known identifiers one-to-one onto the positions 0..len-1 of the label list,
\* and there are as many labels as distinct identifiers seen.
C9_IndexAlignment ==
    pc \in {"running", "ok"} =>
        /\ \A x, y \in DOMAIN node_map : x # y => node_map[x] # node_map[y]
        /\ { node_map[x] : x \in DOMAIN node_map } = 0..(Len(nodes) - 1)
        /\ DOMAIN node_map = IdsOf(SubSeq(TextLines, 1, TakenCount))
        /\ Len(nodes) = Cardinality(IdsOf(SubSeq(TextLines, 1, TakenCount)))

\* C10: an identifier in the table keeps its index for the rest of the parse;
\* no step removes an identifier or changes the index it maps to.
C10_IndexPermanent ==
    [][\A x \in DOMAIN node_map : x \in DOMAIN node_map' /\ node_map'[x] = node_map[x]]_vars

C10_Witness ==
    /\ pc = "running"
    /\ LastKind = "Node"
    /\ LastNode.id \in DOMAIN prev.node_map
    /\ Cardinality(DOMAIN node_map) >= 2
    /\ Len(edges) >= 1

====
